---- MODULE Spec2Model ----
(***************************************************************************)
(* A model of package planner (period.go): the ISO-8601 Period value, its  *)
(* Normalize, Apply, String and FromString operations, Between,            *)
(* FromDuration and DaysInMonth, together with the part of Go's time       *)
(* package those functions call (time.Date, Time.Date, Time.Clock,         *)
(* Time.Sub, Time.Add, Time.Equal and the zone lookup of a Location).      *)
(*                                                                         *)
(* A time.Time is a record [unix, nsec, loc]: the instant in whole seconds *)
(* since 1970-01-01T00:00:00Z, the nanoseconds within that second, and the *)
(* Location.  A time.Duration that is the difference of two modelled Times *)
(* is a record [s, n] standing for the int64 nanosecond count              *)
(* s*10^9 + n, with |n| < 10^9 and n having the sign of the count (so s is *)
(* the count divided by time.Second with Go's truncating division and n is *)
(* the count % time.Second).                                               *)
(***************************************************************************)
EXTENDS Integers, Sequences, FiniteSets, TLC

VARIABLES op, pc, in, out

vars == <<op, pc, in, out>>

(***************************************************************************)
(* Go integer arithmetic: / truncates toward zero, % takes the sign of the *)
(* dividend.  Written without negating the dividend.                       *)
(***************************************************************************)
Quo(a, b) ==
  IF a >= 0 \/ a % b = 0 THEN a \div b ELSE (a \div b) + 1

Rem(a, b) == a - b * Quo(a, b)

(***************************************************************************)
(* package time: the proleptic Gregorian calendar.                         *)
(***************************************************************************)
secondsPerDay == 24 * 60 * 60

nanosPerSecond == 10^9

isLeap(year) ==
  year % 4 = 0 /\ (year % 100 # 0 \/ year % 400 = 0)

\* daysBefore[m] is the number of days in a non-leap year before month m+1.
daysBefore == <<0, 31, 59, 90, 120, 151, 181, 212, 243, 273, 304, 334, 365>>

\* The number of days of year before month m (m = 13: the days of the year).
daysBeforeMonth(year, m) ==
  daysBefore[m] + (IF isLeap(year) /\ m >= 3 THEN 1 ELSE 0)

\* Days from 1970-01-01 to January 1 of year.
daysSinceEpoch(year) ==
  365 * (year - 1970)
    + (((year - 1) \div 4) - ((year - 1) \div 100) + ((year - 1) \div 400))
    - ((1969 \div 4) - (1969 \div 100) + (1969 \div 400))

\* norm of package time: (hi, lo) with lo brought into [0, base).
norm(hi, lo, base) ==
  [hi |-> hi + (lo \div base), lo |-> lo % base]

\* Days from 1970-01-01 to the given civil date; month is normalised into
\* the year first, day may lie outside the month.
dateToDays(year, month, day) ==
  daysSinceEpoch(norm(year, month - 1, 12).hi)
    + daysBeforeMonth(norm(year, month - 1, 12).hi, norm(year, month - 1, 12).lo + 1)
    + (day - 1)

\* The year of a day number.
yearOfDay(d) ==
  CHOOSE yy \in (1969 + (d \div 365))..(1971 + (d \div 365)) :
    daysSinceEpoch(yy) <= d /\ d < daysSinceEpoch(yy + 1)

\* The month of day yday (from 0) of year.
monthOfYearDay(year, yday) ==
  CHOOSE mm \in 1..12 :
    daysBeforeMonth(year, mm) <= yday /\ yday < daysBeforeMonth(year, mm + 1)

dateOfYearDay(year, month, yday) ==
  [year |-> year, month |-> month, day |-> yday - daysBeforeMonth(year, month) + 1]

dateInYear(year, yday) ==
  dateOfYearDay(year, monthOfYearDay(year, yday), yday)

\* The civil date of a day number.
daysToDate(d) == dateInYear(yearOfDay(d), d - daysSinceEpoch(yearOfDay(d)))

(***************************************************************************)
(* Locations.  "UTC" and "EST" have a fixed offset; "Europe/Amsterdam" is  *)
(* the zone of the tests: offset +1h, and +2h from the last Sunday of      *)
(* March 01:00 UTC to the last Sunday of October 01:00 UTC.                *)
(***************************************************************************)
Locations == {"UTC", "EST", "Europe/Amsterdam"}

alpha == -(2^30)

omega == 2^30 + (2^30 - 1)

\* 01:00 UTC on the last Sunday of a 31-day month (1970-01-01 is a Thursday).
lastSunday(year, month) ==
  (dateToDays(year, month, 31) - ((dateToDays(year, month, 31) + 4) % 7))
    * secondsPerDay + 3600

\* The zone of Europe/Amsterdam in use at instant unix of year.
lookupAmsterdam(year, unix) ==
  IF unix < lastSunday(year, 3)
  THEN [offset |-> 3600, start |-> lastSunday(year - 1, 10),
        end |-> lastSunday(year, 3)]
  ELSE IF unix < lastSunday(year, 10)
  THEN [offset |-> 7200, start |-> lastSunday(year, 3),
        end |-> lastSunday(year, 10)]
  ELSE [offset |-> 3600, start |-> lastSunday(year, 10),
        end |-> lastSunday(year + 1, 3)]

\* Location.lookup: the offset in use at instant unix and the instants
\* [start, end) between which it is in use.
lookup(loc, unix) ==
  IF loc = "UTC" THEN [offset |-> 0, start |-> alpha, end |-> omega]
  ELSE IF loc = "EST" THEN [offset |-> -18000, start |-> alpha, end |-> omega]
  ELSE lookupAmsterdam(yearOfDay(unix \div secondsPerDay), unix)

(***************************************************************************)
(* time.Time operations.                                                   *)
(***************************************************************************)
\* The end of time.Date: unix is the wall-clock second count read as UTC and
\* zone the result of looking it up.
dateInZone(unix, zone, nsec, loc) ==
  [unix |-> unix - (IF zone.offset # 0
                       /\ (unix - zone.offset < zone.start
                           \/ unix - zone.offset >= zone.end)
                    THEN lookup(loc, unix - zone.offset).offset
                    ELSE zone.offset),
   nsec |-> nsec, loc |-> loc]

\* The wall-clock second count of a civil date and time.
wallSeconds(year, month, day, hour, min, sec) ==
  dateToDays(year, month, day) * secondsPerDay + hour * 3600 + min * 60 + sec

\* time.Date with hour, min, sec, nsec already in range (every call of the
\* package passes the fields of a Clock()); month and day may overflow.
Date(year, month, day, hour, min, sec, nsec, loc) ==
  dateInZone(wallSeconds(year, month, day, hour, min, sec),
             lookup(loc, wallSeconds(year, month, day, hour, min, sec)),
             nsec, loc)

\* The seconds of t on the wall clock of its Location.
localSeconds(t) == t.unix + lookup(t.loc, t.unix).offset

\* Time.Date
TimeDate(t) == daysToDate(localSeconds(t) \div secondsPerDay)

clockOf(s) ==
  [hour |-> s \div 3600, min |-> (s % 3600) \div 60, sec |-> s % 60]

\* Time.Clock, Time.Hour, Time.Minute, Time.Second
TimeClock(t) == clockOf(localSeconds(t) % secondsPerDay)

\* Time.In
TimeIn(t, loc) == [t EXCEPT !.loc = loc]

\* Time.Equal: the same instant, whatever the Location.
TimeEqual(t, u) == t.unix = u.unix /\ t.nsec = u.nsec

\* The Duration of ds seconds and dn nanoseconds, of any signs.
durationOf(ds, dn) ==
  IF ds > 0 /\ dn < 0 THEN [s |-> ds - 1, n |-> dn + nanosPerSecond]
  ELSE IF ds < 0 /\ dn > 0 THEN [s |-> ds + 1, n |-> dn - nanosPerSecond]
  ELSE [s |-> ds, n |-> dn]

\* Time.Sub: the Duration t-u.
TimeSub(t, u) == durationOf(t.unix - u.unix, t.nsec - u.nsec)

\* Time.Add
TimeAdd(t, d) ==
  [unix |-> norm(t.unix + d.s, t.nsec + d.n, nanosPerSecond).hi,
   nsec |-> norm(t.unix + d.s, t.nsec + d.n, nanosPerSecond).lo,
   loc  |-> t.loc]

(***************************************************************************)
(* Durations that are differences of modelled Times.  time.Hour and        *)
(* time.Minute are whole multiples of time.Second, so dividing the         *)
(* nanosecond count by them (truncating) is dividing its whole seconds.    *)
(***************************************************************************)
Second == [s |-> 1, n |-> 0]

Minute == [s |-> 60, n |-> 0]

Hour == [s |-> 3600, n |-> 0]

\* d / u for a unit u of whole seconds, as an int.
DurDiv(d, u) == Quo(d.s, u.s)

\* DurRem with the remainder of a flooring division.
DurRemFloor(d, u) == [s |-> d.s % u.s, n |-> d.n]

\* d % u for a unit u of whole seconds.
DurRem(d, u) == [s |-> Rem(d.s, u.s), n |-> d.n]

\* time.Hour*h + time.Minute*m + time.Second*s
DurOf(h, m, s) == [s |-> Hour.s * h + Minute.s * m + Second.s * s, n |-> 0]

(***************************************************************************)
(* type Period                                                             *)
(***************************************************************************)
Period(y, mo, w, d, h, mi, s) ==
  [Years |-> y, Months |-> mo, Weeks |-> w, Days |-> d,
   Hours |-> h, Minutes |-> mi, Seconds |-> s]

ZeroPeriod == Period(0, 0, 0, 0, 0, 0, 0)

HasDatePart(period) ==
  period.Years # 0 \/ period.Months # 0 \/ period.Weeks # 0 \/ period.Days # 0

HasTimePart(period) ==
  period.Hours # 0 \/ period.Minutes # 0 \/ period.Seconds # 0

\* Normalize carrying hours into days at 60 instead of 24.
NormalizeHours60(period) ==
  LET seconds  == Rem(period.Seconds, 60)
      minutes0 == Quo(period.Seconds, 60) + period.Minutes
      minutes  == Rem(minutes0, 60)
      hours0   == Quo(minutes0, 60) + period.Hours
      hours    == Rem(hours0, 60)
      days     == Quo(hours0, 60) + period.Days + period.Weeks * 7
      months   == Rem(period.Months, 12)
      years    == Quo(period.Months, 12) + period.Years
  IN  Period(years, months, 0, days, hours, minutes, seconds)

\* Normalize dropping the weeks instead of folding them into the days.
NormalizeDropWeeks(period) ==
  LET seconds  == Rem(period.Seconds, 60)
      minutes0 == Quo(period.Seconds, 60) + period.Minutes
      minutes  == Rem(minutes0, 60)
      hours0   == Quo(minutes0, 60) + period.Hours
      hours    == Rem(hours0, 24)
      days     == Quo(hours0, 24) + period.Days
      months   == Rem(period.Months, 12)
      years    == Quo(period.Months, 12) + period.Years
  IN  Period(years, months, 0, days, hours, minutes, seconds)

\* Period.Normalize
Normalize(period) ==
  LET seconds  == Rem(period.Seconds, 60)
      minutes0 == Quo(period.Seconds, 60) + period.Minutes
      minutes  == Rem(minutes0, 60)
      hours0   == Quo(minutes0, 60) + period.Hours
      hours    == Rem(hours0, 24)
      days     == Quo(hours0, 24) + period.Days + period.Weeks * 7
      months   == Rem(period.Months, 12)
      years    == Quo(period.Months, 12) + period.Years
  IN  Period(years, months, 0, days, hours, minutes, seconds)

\* The end of Period.Apply: date and clock are the fields of t.
applyFields(period, t, date, clock) ==
  TimeAdd(Date(date.year + period.Years, date.month + period.Months,
               date.day + period.Days, clock.hour, clock.min, clock.sec,
               t.nsec, t.loc),
          DurOf(period.Hours, period.Minutes, period.Seconds))

\* Period.Apply
Apply(period, t) == applyFields(period, t, TimeDate(t), TimeClock(t))

\* DaysInMonth
DaysInMonth(year, month, loc) ==
  DurDiv(TimeSub(Date(year, month + 1, 1, 0, 0, 0, 0, loc),
                 Date(year, month, 1, 0, 0, 0, 0, loc)),
         [s |-> Hour.s * 24, n |-> 0])

(***************************************************************************)
(* Between.  The six working fields are a record f; each borrow step of    *)
(* the function is an operator on f.                                       *)
(***************************************************************************)
\* hours, minutes and seconds: the decomposition of diff.
diffFields(years, months, days, diff) ==
  [years   |-> years, months |-> months, days |-> days,
   hours   |-> DurDiv(diff, Hour),
   minutes |-> DurDiv(DurRem(diff, Hour), Minute),
   seconds |-> DurDiv(DurRem(DurRem(diff, Hour), Minute), Second)]

\* adjusted and diff, from the naive date deltas.
adjustedFields(end, d1, clock, years, months, days, loc) ==
  diffFields(years, months, days,
             TimeSub(end, Date(d1.year + years, d1.month + months, d1.day + days,
                               clock.hour, clock.min, clock.sec, 0, loc)))

\* The naive date deltas, from the dates d1 of start and d2 of end.
dateFields(end, d1, d2, clock, loc) ==
  adjustedFields(end, d1, clock,
                 d2.year - d1.year, d2.month - d1.month, d2.day - d1.day, loc)

\* The six fields of Between before any borrow.
BetweenFields(start, end, loc) ==
  dateFields(TimeIn(end, loc), TimeDate(TimeIn(start, loc)),
             TimeDate(TimeIn(end, loc)), TimeClock(TimeIn(start, loc)), loc)

BorrowSecondsMinutes(f) ==
  IF f.minutes > 0 /\ f.seconds < 0
  THEN [f EXCEPT !.seconds = @ + 60, !.minutes = @ - 1]
  ELSE IF f.minutes < 0 /\ f.seconds > 0
  THEN [f EXCEPT !.seconds = @ - 24, !.minutes = @ + 1]
  ELSE f

BorrowMinutesHours(f) ==
  IF f.hours > 0 /\ f.minutes < 0
  THEN [f EXCEPT !.minutes = @ + 60, !.hours = @ - 1]
  ELSE IF f.hours < 0 /\ f.minutes > 0
  THEN [f EXCEPT !.minutes = @ - 60, !.hours = @ + 1]
  ELSE f

BorrowHoursDays(f) ==
  IF f.days > 0 /\ f.hours < 0
  THEN [f EXCEPT !.hours = @ + 24, !.days = @ - 1]
  ELSE IF f.days < 0 /\ f.hours > 0
  THEN [f EXCEPT !.hours = @ - 24, !.days = @ + 1]
  ELSE f

BorrowMonthsYears(f) ==
  IF f.years > 0 /\ f.months < 0
  THEN [f EXCEPT !.months = @ + 12, !.years = @ - 1]
  ELSE IF f.years < 0 /\ f.months > 0
  THEN [f EXCEPT !.months = @ - 12, !.years = @ + 1]
  ELSE f

fieldsPeriod(f) ==
  Period(f.years, f.months, 0, f.days, f.hours, f.minutes, f.seconds)

\* The steps of Between from the fields f0: the fields after each borrow and
\* the Period returned.
betweenSteps(f0, f1, f2, f3) ==
  [equal |-> FALSE, f0 |-> f0, f1 |-> f1, f2 |-> f2, f3 |-> f3,
   period |-> fieldsPeriod(BorrowMonthsYears(f3))]

\* The run of Between.
BetweenRun(start, end, loc) ==
  IF TimeEqual(start, end)
  THEN [equal |-> TRUE, period |-> ZeroPeriod]
  ELSE betweenSteps(
         BetweenFields(start, end, loc),
         BorrowSecondsMinutes(BetweenFields(start, end, loc)),
         BorrowMinutesHours(BorrowSecondsMinutes(BetweenFields(start, end, loc))),
         BorrowHoursDays(BorrowMinutesHours(BorrowSecondsMinutes(
           BetweenFields(start, end, loc)))))

Between(start, end, loc) == BetweenRun(start, end, loc).period

(***************************************************************************)
(* Text.  A string is a sequence of one-character strings.                 *)
(***************************************************************************)
Digits == <<"0", "1", "2", "3", "4", "5", "6", "7", "8", "9">>

IsDigit(c) == \E k \in 1..10 : Digits[k] = c

DigitValue(c) == (CHOOSE k \in 1..10 : Digits[k] = c) - 1

\* The decimal rendering of an int, as the template prints a field.
RECURSIVE Itoa(_)
Itoa(n) ==
  IF n < 0 THEN <<"-">> \o Itoa(-n)
  ELSE IF n < 10 THEN <<Digits[n + 1]>>
  ELSE Itoa(n \div 10) \o <<Digits[(n % 10) + 1]>>

\* strconv.Atoi on a non-empty run of digits.
RECURSIVE Atoi(_)
Atoi(part) ==
  IF Len(part) = 0 THEN 0
  ELSE Atoi(SubSeq(part, 1, Len(part) - 1)) * 10 + DigitValue(part[Len(part)])

\* {{if .X}}{{.X}}U{{end}} of tmplPeriod
Unit(value, letter) ==
  IF value # 0 THEN Itoa(value) \o <<letter>> ELSE <<>>

\* String with the T separator left out.
StringWithoutT(period) ==
  <<"P">> \o Unit(period.Years, "Y") \o Unit(period.Months, "M")
          \o Unit(period.Weeks, "W") \o Unit(period.Days, "D")
          \o Unit(period.Hours, "H") \o Unit(period.Minutes, "M")
          \o Unit(period.Seconds, "S")

\* Period.String: the execution of tmplPeriod.
String(period) ==
  <<"P">> \o Unit(period.Years, "Y") \o Unit(period.Months, "M")
          \o Unit(period.Weeks, "W") \o Unit(period.Days, "D")
          \o (IF HasTimePart(period) THEN <<"T">> ELSE <<>>)
          \o Unit(period.Hours, "H") \o Unit(period.Minutes, "M")
          \o Unit(period.Seconds, "S")

\* The number of digits of str from position i on.
RECURSIVE DigitRun(_, _)
DigitRun(str, i) ==
  IF i <= Len(str) /\ IsDigit(str[i]) THEN 1 + DigitRun(str, i + 1) ELSE 0

\* One optional group ((?P<name>\d+)L)? tried at position i: the submatch
\* (empty when the group takes no part) and the position after it.
Group(str, i, letter) ==
  LET k == DigitRun(str, i)
  IN  IF k >= 1 /\ i + k <= Len(str) /\ str[i + k] = letter
      THEN [part |-> SubSeq(str, i, i + k - 1), next |-> i + k + 1]
      ELSE [part |-> <<>>, next |-> i]

NoMatch == [matched |-> FALSE, parts |-> <<>>]

\* regexpWeek.FindStringSubmatch: the named submatches, in order.
MatchWeek(str) ==
  IF Len(str) >= 1 /\ str[1] = "P"
  THEN LET w == Group(str, 2, "W")
       IN  IF w.part # <<>> /\ w.next = Len(str) + 1
           THEN [matched |-> TRUE, parts |-> <<[name |-> "week", part |-> w.part]>>]
           ELSE NoMatch
  ELSE NoMatch

\* regexpPeriod.FindStringSubmatch: the named submatches, in order.
MatchPeriod(str) ==
  IF Len(str) >= 1 /\ str[1] = "P"
  THEN LET y    == Group(str, 2, "Y")
           mo   == Group(str, y.next, "M")
           d    == Group(str, mo.next, "D")
           hasT == d.next <= Len(str) /\ str[d.next] = "T"
           h    == Group(str, d.next + 1, "H")
           mi   == Group(str, h.next, "M")
           sec  == Group(str, mi.next, "S")
           time == IF hasT THEN <<h.part, mi.part, sec.part>> ELSE <<<<>>, <<>>, <<>>>>
           last == IF hasT THEN sec.next ELSE d.next
       IN  IF last = Len(str) + 1
           THEN [matched |-> TRUE,
                 parts |-> <<[name |-> "year", part |-> y.part],
                             [name |-> "month", part |-> mo.part],
                             [name |-> "day", part |-> d.part],
                             [name |-> "hour", part |-> time[1]],
                             [name |-> "minute", part |-> time[2]],
                             [name |-> "second", part |-> time[3]]>>]
           ELSE NoMatch
  ELSE NoMatch

\* The switch of FromString on one named submatch.
SetField(period, name, val) ==
  CASE name = "year"   -> [period EXCEPT !.Years = val]
    [] name = "month"  -> [period EXCEPT !.Months = val]
    [] name = "week"   -> [period EXCEPT !.Weeks = val]
    [] name = "day"    -> [period EXCEPT !.Days = val]
    [] name = "hour"   -> [period EXCEPT !.Hours = val]
    [] name = "minute" -> [period EXCEPT !.Minutes = val]
    [] name = "second" -> [period EXCEPT !.Seconds = val]

\* The loop of FromString over the submatches from index i on.
RECURSIVE SetFields(_, _, _)
SetFields(period, parts, i) ==
  IF i > Len(parts) THEN period
  ELSE IF parts[i].part = <<>> THEN SetFields(period, parts, i + 1)
  ELSE SetFields(SetField(period, parts[i].name, Atoi(parts[i].part)), parts, i + 1)

\* FromString
FromString(str) ==
  LET week  == MatchWeek(str)
      match == IF week.matched THEN week ELSE MatchPeriod(str)
  IN  IF ~match.matched
      THEN [err |-> "errPeriodBadFormat", period |-> ZeroPeriod]
      ELSE [err |-> "nil", period |-> SetFields(ZeroPeriod, match.parts, 1)]

(***************************************************************************)
(* FromDuration.  The second count of an int64 Duration and the bound      *)
(* 1<<(strconv.IntSize-1) - 1 do not fit the integers of the checker, so   *)
(* an int64 here is a record [hi, mid, lo] standing for                    *)
(* hi*2^60 + mid*2^30 + lo with 0 <= mid, lo < 2^30 (hi carries the sign). *)
(* The Duration passed in is [s, n] as above, with s such a record.        *)
(***************************************************************************)
Limb == 2^30

Wide(hi, mid, lo) == [hi |-> hi, mid |-> mid, lo |-> lo]

\* a > b on int64 values
WideGT(a, b) ==
  \/ a.hi > b.hi
  \/ a.hi = b.hi /\ a.mid > b.mid
  \/ a.hi = b.hi /\ a.mid = b.mid /\ a.lo > b.lo

\* 1<<k - 1 as an int64, 0 <= k <= 63
Pow2Minus1(k) ==
  Wide(IF k > 60 THEN 2^(k - 60) - 1 ELSE 0,
       IF k >= 60 THEN Limb - 1 ELSE IF k > 30 THEN 2^(k - 30) - 1 ELSE 0,
       IF k >= 30 THEN Limb - 1 ELSE 2^k - 1)

\* int(x) of an int64 x on a host whose int has IntSize bits: the low IntSize
\* bits of x, read as a signed number.  (With IntSize = 64 the value is x
\* itself.)
ToInt(x, IntSize) ==
  IF IntSize = 64 THEN (x.hi * Limb + x.mid) * Limb + x.lo
  ELSE LET top == x.mid % (2^(IntSize - 30))
       IN  (IF top >= 2^(IntSize - 31) THEN top - 2^(IntSize - 30) ELSE top) * Limb
             + x.lo

\* FromDuration on a host whose int has IntSize bits
FromDuration(duration, IntSize) ==
  LET seconds    == duration.s
      maxSeconds == Pow2Minus1(IntSize - 1)
  IN  IF WideGT(seconds, maxSeconds)
      THEN [err |-> "errPeriodOverflow", period |-> ZeroPeriod]
      ELSE [err |-> "nil",
            period |-> Normalize(Period(0, 0, 0, 0, 0, 0, ToInt(seconds, IntSize)))]

(***************************************************************************)
(* The calls.  Every specification starts with a call of one function on   *)
(* inputs drawn from a bounded set (pc = "call") and its action runs the   *)
(* function (pc = "return").                                               *)
(***************************************************************************)
Nothing == [none |-> TRUE]

MaxCarry == 1

MaxDigits == 2

MaxNanos == 1

MaxYears == 2

MaxWeeks == 2

MaxHigh == 3

\* ---- Normalize ----
CarryVals(base) ==
  {k * base + r : k \in -MaxCarry..MaxCarry, r \in {0, base - 1}}

NormalizeInputs ==
  {Period(y, mo, w, d, h, mi, sec) :
     y \in {-1, 0, 1}, mo \in {-13, 0, 15}, w \in {-1, 0, 2}, d \in {-1, 0, 31},
     h \in CarryVals(24), mi \in CarryVals(60), sec \in CarryVals(60)}

InitNormalize ==
  /\ op = "Normalize" /\ pc = "call" /\ out = Nothing
  /\ in \in {[period |-> p] : p \in NormalizeInputs}

DoNormalize ==
  /\ op = "Normalize" /\ pc = "call"
  /\ out' = Normalize(in.period)
  /\ pc' = "return"
  /\ UNCHANGED <<op, in>>

SpecNormalize == InitNormalize /\ [][DoNormalize]_vars

\* ---- Apply ----
ApplyPeriods ==
  {Period(y, mo, w, d, h, mi, 0) :
     y \in {0, 1}, mo \in {-1, 0, 13}, w \in -1..MaxWeeks, d \in {-1, 0, 30},
     h \in {0, 36}, mi \in {-1, 0}}

ApplyTimes ==
  {Date(2017, 3, 7, 12, 30, 45, 999999999, loc) : loc \in Locations}
    \cup {Date(2017, 3, 26, 0, 0, 0, 0, loc) : loc \in Locations}
    \cup {Date(2017, 10, 29, 0, 0, 0, 0, loc) : loc \in Locations}

InitApply ==
  /\ op = "Apply" /\ pc = "call" /\ out = Nothing
  /\ in \in {[period |-> p, t |-> t] : p \in ApplyPeriods, t \in ApplyTimes}

DoApply ==
  /\ op = "Apply" /\ pc = "call"
  /\ out' = Apply(in.period, in.t)
  /\ pc' = "return"
  /\ UNCHANGED <<op, in>>

SpecApply == InitApply /\ [][DoApply]_vars

\* ---- DaysInMonth ----
DaysYears == {2000} \cup 2015..(2015 + MaxYears)

InitDaysInMonth ==
  /\ op = "DaysInMonth" /\ pc = "call" /\ out = Nothing
  /\ in \in {[year |-> y, month |-> m, loc |-> loc] :
               y \in DaysYears, m \in 1..12, loc \in Locations}

DoDaysInMonth ==
  /\ op = "DaysInMonth" /\ pc = "call"
  /\ out' = DaysInMonth(in.year, in.month, in.loc)
  /\ pc' = "return"
  /\ UNCHANGED <<op, in>>

SpecDaysInMonth == InitDaysInMonth /\ [][DoDaysInMonth]_vars

\* ---- Between, and Apply on its result ----
BetweenDates ==
  {<<2016, 2, 28>>, <<2016, 3, 31>>, <<2016, 12, 31>>, <<2017, 1, 31>>,
   <<2017, 3, 25>>, <<2017, 3, 26>>, <<2017, 10, 29>>}

BetweenClocks == {<<0, 0, 0>>, <<2, 30, 0>>, <<7, 4, 1>>, <<23, 59, 59>>}

BetweenNanos == {0} \cup {nanosPerSecond - k : k \in 1..MaxNanos}

BetweenTimes(loc) ==
  {Date(d[1], d[2], d[3], c[1], c[2], c[3], n, loc) :
     d \in BetweenDates, c \in BetweenClocks, n \in BetweenNanos}

InitBetween ==
  /\ op = "Between" /\ pc = "call" /\ out = Nothing
  /\ \E loc \in Locations :
       in \in {[start |-> a, end |-> b, loc |-> loc] :
                 a \in BetweenTimes(loc), b \in BetweenTimes(loc)}

DoBetween ==
  /\ op = "Between" /\ pc = "call"
  /\ out' = [run |-> BetweenRun(in.start, in.end, in.loc)]
  /\ pc' = "return"
  /\ UNCHANGED <<op, in>>

\* result.Apply(start), as the tests do after Between(start, end, loc)
ApplyResult ==
  /\ op = "Between" /\ pc = "return"
  /\ out' = [run |-> out.run, applied |-> Apply(out.run.period, in.start)]
  /\ pc' = "applied"
  /\ UNCHANGED <<op, in>>

NextBetween == DoBetween \/ ApplyResult

SpecBetween == InitBetween /\ [][NextBetween]_vars

\* ---- String and FromString ----
TextVals == {0} \cup {9 * 10^k + 1 : k \in 0..(MaxDigits - 1)}

TextPeriods ==
  {Period(y, mo, w, d, h, mi, sec) :
     y \in TextVals \cup {-1}, mo \in TextVals, w \in {0, 3}, d \in TextVals,
     h \in TextVals, mi \in TextVals, sec \in TextVals}

\* The strings of TestFromString.
TestStrings ==
  {<<"D", "T", "1", "S">>, <<"P", "1", "S">>, <<"P", "1", "Q">>,
   <<"P", "T", "1", "S">>, <<"P", "T", "2", "M">>, <<"P", "T", "3", "H">>,
   <<"P", "4", "D">>, <<"P", "5", "M">>, <<"P", "6", "Y">>, <<"P", "7", "W">>,
   <<"P", "6", "Y", "5", "M", "4", "D", "T", "3", "H", "2", "M", "1", "S">>}

InitText ==
  /\ pc = "call" /\ out = Nothing
  /\ \/ op = "String" /\ in \in {[period |-> p] : p \in TextPeriods}
     \/ op = "FromString" /\ in \in {[str |-> str] : str \in TestStrings}

DoString ==
  /\ op = "String" /\ pc = "call"
  /\ out' = [str |-> String(in.period)]
  /\ pc' = "return"
  /\ UNCHANGED <<op, in>>

DoFromString ==
  /\ op = "FromString" /\ pc = "call"
  /\ out' = FromString(in.str)
  /\ pc' = "return"
  /\ UNCHANGED <<op, in>>

\* FromString(p.String())
ParseResult ==
  /\ op = "String" /\ pc = "return"
  /\ out' = [str |-> out.str, parsed |-> FromString(out.str)]
  /\ pc' = "parsed"
  /\ UNCHANGED <<op, in>>

NextText == DoString \/ DoFromString \/ ParseResult

SpecText == InitText /\ [][NextText]_vars

\* ---- FromDuration ----
\* Second counts m*2^30 + l around 0, 2^31 and -2^31, with a sub-second part
\* of the same sign.  On a 64-bit host the model takes the counts that fit
\* the integers of the checker.
DurationInputs ==
  {[duration |-> [s |-> Wide(IF m < 0 THEN -1 ELSE 0, m % Limb, l),
                  n |-> IF m < 0 THEN -n ELSE n],
    IntSize  |-> w] :
     m \in -MaxHigh..(MaxHigh - 1), l \in {0, 1, 97443, Limb - 97443, Limb - 1},
     n \in {0, 500000000},
     w \in {32, 64}}

InitFromDuration ==
  /\ op = "FromDuration" /\ pc = "call" /\ out = Nothing
  /\ in \in {i \in DurationInputs :
               i.IntSize = 64 =>
                 i.duration.s.hi \in {-1, 0}
                 /\ (i.duration.s.hi = 0 => i.duration.s.mid <= 1)
                 /\ (i.duration.s.hi = -1 => i.duration.s.mid >= Limb - 2)}

DoFromDuration ==
  /\ op = "FromDuration" /\ pc = "call"
  /\ out' = FromDuration(in.duration, in.IntSize)
  /\ pc' = "return"
  /\ UNCHANGED <<op, in>>

SpecFromDuration == InitFromDuration /\ [][DoFromDuration]_vars

(***************************************************************************)
(* The properties.                                                         *)
(***************************************************************************)
Fields == {"Years", "Months", "Weeks", "Days", "Hours", "Minutes", "Seconds"}

AllNonNegative(p) == \A f \in Fields : p[f] >= 0

Negate(p) == [f \in Fields |-> 0 - p[f]]

\* t is an earlier instant than u
Before(t, u) == t.unix < u.unix \/ (t.unix = u.unix /\ t.nsec < u.nsec)

\* p with its weeks folded into its days
FoldWeeks(p) == [p EXCEPT !.Days = @ + 7 * p.Weeks, !.Weeks = 0]

\* C1: p.Apply(t) equals q.Apply(t), where q is p with Days replaced by
\* Days + 7*Weeks and Weeks set to 0.
C1_ApplyFoldsWeeks ==
  (op = "Apply" /\ pc = "return") => out = Apply(FoldWeeks(in.period), in.t)

\* C2: for whole-second start and end in loc, Between(start, end, loc)
\* applied to start yields end (both orders of every pair are inputs).
C2_ApplyOfBetweenIsEnd ==
  (op = "Between" /\ pc = "applied" /\ in.start.nsec = 0 /\ in.end.nsec = 0)
    => out.applied = in.end

\* C3: every field of Between(a, b, z) is the negation of the same field of
\* Between(b, a, z).
C3_BetweenAntisymmetric ==
  (op = "Between" /\ pc = "return")
    => out.run.period = Negate(Between(in.end, in.start, in.loc))

\* C4: the fields of a Between result never have mixed signs: none is
\* positive when end precedes start, none is negative when end follows start.
C4_BetweenNoMixedSigns ==
  (op = "Between" /\ pc = "return")
    => /\ Before(in.end, in.start) => \A f \in Fields : out.run.period[f] <= 0
       /\ Before(in.start, in.end) => \A f \in Fields : out.run.period[f] >= 0

Expressible(p) ==
  /\ AllNonNegative(p)
  /\ p.Weeks = 0 \/ \A f \in Fields \ {"Weeks"} : p[f] = 0

\* C6 as claimed: FromString(p.String()) succeeds and returns p.Normalize().
C6_RoundTripIsNormalize ==
  (op = "String" /\ pc = "parsed" /\ Expressible(in.period))
    => out.parsed.err = "nil" /\ out.parsed.period = Normalize(in.period)

\* C6 as amended: FromString(p.String()) succeeds and returns p itself, so it
\* equals p.Normalize() exactly when p is already normalized.
C6_RoundTripIsIdentity ==
  (op = "String" /\ pc = "parsed" /\ Expressible(in.period))
    => /\ out.parsed.err = "nil"
       /\ out.parsed.period = in.period
       /\ (out.parsed.period = Normalize(in.period))
            <=> (in.period = Normalize(in.period))

\* A round trip of a Period with Seconds 91 and Months over 11, which comes
\* back as it was and not normalized.
C6_Witness ==
  /\ op = "String" /\ pc = "parsed" /\ Expressible(in.period)
  /\ in.period.Seconds = 91 /\ in.period.Months > 11 /\ in.period.Hours > 0
  /\ out.parsed.err = "nil"
  /\ out.parsed.period = in.period
  /\ out.parsed.period # Normalize(in.period)

\* The int64 -(2^k), 30 <= k <= 63
MinusPow2(k) ==
  Wide(IF k >= 60 THEN 0 - 2^(k - 60) ELSE -1,
       IF k >= 60 THEN 0 ELSE Limb - 2^(k - 30),
       0)

\* The second count of the call lies outside the int of the host.
OutsideInt(seconds, IntSize) ==
  \/ WideGT(seconds, Pow2Minus1(IntSize - 1))
  \/ WideGT(MinusPow2(IntSize - 1), seconds)

\* The seconds a Period of days, hours, minutes and seconds stands for.
TotalSeconds(p) ==
  p.Days * 86400 + p.Hours * 3600 + p.Minutes * 60 + p.Seconds

\* C7: FromDuration(d) fails with the Overflow error whenever the second
\* count of d lies outside the int of the host, above or below; otherwise
\* it returns a Period that stands for exactly that second count.
C7_FromDurationOverflow ==
  (op = "FromDuration" /\ pc = "return")
    => IF OutsideInt(in.duration.s, in.IntSize)
       THEN out.err = "errPeriodOverflow"
       ELSE /\ out.err = "nil"
            /\ out.period.Years = 0 /\ out.period.Months = 0 /\ out.period.Weeks = 0
            /\ TotalSeconds(out.period) = ToInt(in.duration.s, 64)

\* The Gregorian length of a month.
GregorianLength(year, month) ==
  IF month = 2
  THEN (IF year % 4 = 0 /\ (year % 100 # 0 \/ year % 400 = 0) THEN 29 ELSE 28)
  ELSE IF month \in {4, 6, 9, 11} THEN 30 ELSE 31

\* C8: DaysInMonth(Y, m, zone) is the Gregorian length of month m of year Y
\* in every zone.
C8_DaysInMonthGregorian ==
  (op = "DaysInMonth" /\ pc = "return")
    => out = GregorianLength(in.year, in.month)

\* C9: the hours, minutes and seconds decomposed from diff never have
\* opposite signs, so neither the seconds/minutes nor the minutes/hours
\* borrow step of Between changes a field.
C9_TimeBorrowsNeverTaken ==
  (op = "Between" /\ pc = "return" /\ ~out.run.equal)
    => /\ \/ out.run.f0.hours >= 0 /\ out.run.f0.minutes >= 0
             /\ out.run.f0.seconds >= 0
          \/ out.run.f0.hours <= 0 /\ out.run.f0.minutes <= 0
             /\ out.run.f0.seconds <= 0
       /\ out.run.f1 = out.run.f0
       /\ out.run.f2 = out.run.f1

\* A Between whose diff has negative minutes and seconds and whose
\* hours/days borrow step is taken.
C9_Witness ==
  /\ op = "Between" /\ pc = "return" /\ ~out.run.equal
  /\ out.run.f0.minutes < 0 /\ out.run.f0.seconds < 0
  /\ out.run.f3 # out.run.f2

\* C10: Normalize conserves the seconds of the day/time group (weeks at 7
\* days) and the months of the year/month group, for fields of either sign.
C10_NormalizeConserves ==
  (op = "Normalize" /\ pc = "return")
    => /\ TotalSeconds(out)
            = (in.period.Days + 7 * in.period.Weeks) * 86400
                + in.period.Hours * 3600 + in.period.Minutes * 60
                + in.period.Seconds
       /\ out.Years * 12 + out.Months = in.period.Years * 12 + in.period.Months

\* A Normalize of a Period with negative fields and weeks that changes it.
C10_Witness ==
  /\ op = "Normalize" /\ pc = "return"
  /\ in.period.Seconds < 0 /\ in.period.Hours < 0 /\ in.period.Months < 0
  /\ in.period.Weeks # 0 /\ in.period.Minutes > 59
  /\ out # in.period

====
